---- MODULE Spec2Model ----
(***************************************************************************)
(* A model of the strategy validation and sanitization engine              *)
(* (src/strategy_validator.py) and of its caller parse_strategy_from_nl    *)
(* (src/ollama_client.py).                                                 *)
(*                                                                         *)
(* JSON values are tagged records.  A Python str is a sequence of          *)
(* one-character strings, so that strip(), lower(), int() and float() are  *)
(* computed character by character.  The character U+2248 of the           *)
(* approximate-equality operator is written "U+2248".  A float is held in  *)
(* tenths (2.5 is tenths 25); an exception that leaves a function is the   *)
(* value Raise(<exception class>).                                         *)
(***************************************************************************)
EXTENDS Integers, Sequences, FiniteSets, TLC

----------------------------------------------------------------------------
(* JSON-like Python values *)

JNull == [t |-> "null"]

JBool(b) == [t |-> "bool", b |-> b]

JInt(n) == [t |-> "int", n |-> n]

JFloat(k) == [t |-> "float", tenths |-> k]

JStr(s) == [t |-> "str", s |-> s]

JList(items) == [t |-> "list", items |-> items]

JDict(f) == [t |-> "dict", f |-> f]

EmptyDict == JDict(<<>>)

Raise(exc) == [t |-> "raise", exc |-> exc]

IsRaise(v) == v.t = "raise"

IsDict(v) == v.t = "dict"

IsList(v) == v.t = "list"

IsStr(v) == v.t = "str"

\* isinstance(v, int): bool is a subclass of int
IsInt(v) == v.t \in {"int", "bool"}

\* isinstance(v, (int, float))
IsNumber(v) == v.t \in {"int", "bool", "float"}

IntVal(v) == IF v.t = "bool" THEN (IF v.b THEN 1 ELSE 0) ELSE v.n

\* key in d, d[key], d.get(key, default) on a dict
Has(d, key) == key \in DOMAIN d.f

Get(d, key, default) == IF key \in DOMAIN d.f THEN d.f[key] ELSE default

----------------------------------------------------------------------------
(* str methods and the int()/float()/str() conversions *)

UpperChars == <<"A", "B", "C", "D", "E", "F", "G", "H", "I", "J", "K", "L", "M",
                "N", "O", "P", "Q", "R", "S", "T", "U", "V", "W", "X", "Y", "Z">>

LowerChars == <<"a", "b", "c", "d", "e", "f", "g", "h", "i", "j", "k", "l", "m",
                "n", "o", "p", "q", "r", "s", "t", "u", "v", "w", "x", "y", "z">>

DigitChars == <<"0", "1", "2", "3", "4", "5", "6", "7", "8", "9">>

Whitespace == {" ", "\t", "\n"}

LowerChar(c) ==
    IF \E i \in 1..Len(UpperChars) : UpperChars[i] = c
    THEN LowerChars[CHOOSE i \in 1..Len(UpperChars) : UpperChars[i] = c]
    ELSE c

\* s.lower()
StrLower(s) == [i \in 1..Len(s) |-> LowerChar(s[i])]

RECURSIVE LStrip(_)
LStrip(s) ==
    IF s # <<>> /\ Head(s) \in Whitespace THEN LStrip(Tail(s)) ELSE s

RECURSIVE RStrip(_)
RStrip(s) ==
    IF s # <<>> /\ s[Len(s)] \in Whitespace
    THEN RStrip(SubSeq(s, 1, Len(s) - 1))
    ELSE s

\* s.strip()
StrStrip(s) == RStrip(LStrip(s))

IsDigit(c) == \E i \in 1..Len(DigitChars) : DigitChars[i] = c

DigitVal(c) == (CHOOSE i \in 1..Len(DigitChars) : DigitChars[i] = c) - 1

RECURSIVE DigitsVal(_)
DigitsVal(s) ==
    IF s = <<>> THEN 0
    ELSE 10 * DigitsVal(SubSeq(s, 1, Len(s) - 1)) + DigitVal(s[Len(s)])

AllDigits(s) == s # <<>> /\ \A i \in 1..Len(s) : IsDigit(s[i])

\* the text without its sign, and the sign
Unsigned(s) == IF s # <<>> /\ Head(s) \in {"-", "+"} THEN Tail(s) ELSE s

Sign(s) == IF s # <<>> /\ Head(s) = "-" THEN -1 ELSE 1

RECURSIVE NatStr(_)
NatStr(n) ==
    IF n < 10 THEN <<DigitChars[n + 1]>>
    ELSE NatStr(n \div 10) \o <<DigitChars[(n % 10) + 1]>>

IntStr(n) == IF n < 0 THEN <<"-">> \o NatStr(-n) ELSE NatStr(n)

\* truncation toward zero of a float held in tenths
Trunc(k) == IF k < 0 THEN -((-k) \div 10) ELSE k \div 10

\* int(v): the integer, or the exception int() raises
PyInt(v) ==
    CASE v.t = "int" -> v
      [] v.t = "bool" -> JInt(IntVal(v))
      [] v.t = "float" -> JInt(Trunc(v.tenths))
      [] v.t = "str" ->
            LET body == StrStrip(v.s) IN
            IF AllDigits(Unsigned(body))
            THEN JInt(Sign(body) * DigitsVal(Unsigned(body)))
            ELSE Raise("ValueError")
      [] OTHER -> Raise("TypeError")

\* the position of the decimal point of s, 0 when it has none
DotAt(s) ==
    IF \E i \in 1..Len(s) : s[i] = "."
    THEN CHOOSE i \in 1..Len(s) : s[i] = "."
    ELSE 0

\* float(s) of a text: digits with at most one decimal digit are what the
\* tenths hold; any other text of the model is not a number.
ParseFloat(s) ==
    LET body == StrStrip(s)
        u == Unsigned(body)
        d == DotAt(u)
        whole == IF d = 0 THEN u ELSE SubSeq(u, 1, d - 1)
        frac == IF d = 0 THEN <<>> ELSE SubSeq(u, d + 1, Len(u))
    IN  IF AllDigits(whole) /\ (frac = <<>> \/ (AllDigits(frac) /\ Len(frac) = 1))
              /\ (d = 0 \/ frac # <<>>)
        THEN JFloat(Sign(body) * (10 * DigitsVal(whole) + DigitsVal(frac)))
        ELSE Raise("ValueError")

\* float(v): the float, or the exception float() raises
PyFloat(v) ==
    CASE v.t = "float" -> v
      [] v.t \in {"int", "bool"} -> JFloat(10 * IntVal(v))
      [] v.t = "str" -> ParseFloat(v.s)
      [] OTHER -> Raise("TypeError")

\* str(v), also the text an f-string puts for v.  The text of a list or a
\* dict is cut to its brackets: no use of it looks past the first character.
PyStr(v) ==
    CASE v.t = "str" -> v.s
      [] v.t = "null" -> <<"N", "o", "n", "e">>
      [] v.t = "bool" -> IF v.b THEN <<"T", "r", "u", "e">>
                         ELSE <<"F", "a", "l", "s", "e">>
      [] v.t = "int" -> IntStr(v.n)
      [] v.t = "float" ->
            (IF v.tenths < 0 THEN <<"-">> ELSE <<>>)
            \o NatStr((IF v.tenths < 0 THEN -v.tenths ELSE v.tenths) \div 10)
            \o <<".">>
            \o NatStr((IF v.tenths < 0 THEN -v.tenths ELSE v.tenths) % 10)
      [] v.t = "list" -> <<"[", "]">>
      [] OTHER -> <<"{", "}">>

----------------------------------------------------------------------------
(* The vocabulary: src/strategy_validator.py lines 10-45 *)

Chars_close == <<"c", "l", "o", "s", "e">>

Chars_open == <<"o", "p", "e", "n">>

Chars_high == <<"h", "i", "g", "h">>

Chars_low == <<"l", "o", "w">>

Chars_volume == <<"v", "o", "l", "u", "m", "e">>

Chars_sma == <<"s", "m", "a">>

Chars_macd == <<"m", "a", "c", "d">>

Chars_atr == <<"a", "t", "r">>

NoPeriod(name) == [name |-> name, requires_period |-> FALSE]

WithPeriod(name, default) ==
    [name |-> name, requires_period |-> TRUE, default_period |-> default]

VALID_INDICATORS ==
    { NoPeriod(Chars_close), NoPeriod(Chars_open), NoPeriod(Chars_high),
      NoPeriod(Chars_low), NoPeriod(Chars_volume),
      NoPeriod(Chars_volume \o <<"_", "t", "u", "r", "n", "o", "v", "e", "r">>),
      WithPeriod(Chars_sma, 20), WithPeriod(<<"e", "m", "a">>, 20),
      WithPeriod(<<"w", "m", "a">>, 20), WithPeriod(<<"h", "m", "a">>, 20),
      WithPeriod(<<"v", "w", "m", "a">>, 20),
      WithPeriod(<<"r", "s", "i">>, 14), WithPeriod(Chars_macd, 12),
      WithPeriod(Chars_macd \o <<"_", "s", "i", "g", "n", "a", "l">>, 9),
      WithPeriod(<<"a", "d", "x">>, 14),
      WithPeriod(Chars_atr, 14),
      WithPeriod(Chars_atr \o <<"_", "r", "a", "t", "i", "o">>, 14),
      WithPeriod(<<"b", "b", "_">> \o Chars_high, 20),
      WithPeriod(<<"b", "b", "_", "m", "i", "d">>, 20),
      WithPeriod(<<"b", "b", "_">> \o Chars_low, 20),
      WithPeriod(Chars_volume \o <<"_">> \o Chars_sma, 20) }

\* name in VALID_INDICATORS, VALID_INDICATORS[name]
InRegistry(name) == \E e \in VALID_INDICATORS : e.name = name

Config(name) == CHOOSE e \in VALID_INDICATORS : e.name = name

OP_APPROX == JStr(<<"U+2248", " ", "(", "a", "p", "p", "r", "o", "x", ")">>)

OP_GT == JStr(<<">">>)

VALID_OPERATORS ==
    <<OP_GT, JStr(<<"<">>), JStr(<<">", "=">>), JStr(<<"<", "=">>),
      JStr(<<"=", "=">>), OP_APPROX>>

TF_DAILY == JStr(<<"d", "a", "i", "l", "y">>)

VALID_TIMEFRAMES ==
    <<TF_DAILY, JStr(<<"w", "e", "e", "k", "l", "y">>),
      JStr(<<"m", "o", "n", "t", "h", "l", "y">>)>>

\* v in <a list>: some element equals v
InList(v, list) == \E i \in 1..Len(list) : list[i] = v

TYPE_VALUE == JStr(<<"v", "a", "l", "u", "e">>)

TYPE_INDICATOR == JStr(<<"i", "n", "d", "i", "c", "a", "t", "o", "r">>)

Chars_period == <<"p", "e", "r", "i", "o", "d">>

\* sub in s, for two texts
IsSubstr(sub, s) ==
    \E i \in 0..(Len(s) - Len(sub)) : SubSeq(s, i + 1, i + Len(sub)) = sub

----------------------------------------------------------------------------
(* Validation: src/strategy_validator.py lines 55-200.  A message is the   *)
(* sequence of its pieces; an interpolated text is put character by        *)
(* character.  The result of a check is [ok, err, warns, exc]: the         *)
(* (bool, str) pair returned, the warnings appended to self.warnings       *)
(* meanwhile, and the exception that left the check ("" for none).         *)

Pass(warns) == [ok |-> TRUE, err |-> <<>>, warns |-> warns, exc |-> ""]

Fail(err, warns) == [ok |-> FALSE, err |-> err, warns |-> warns, exc |-> ""]

Throw(exc, warns) == [ok |-> FALSE, err |-> <<>>, warns |-> warns, exc |-> exc]

Quoted(name) == <<"'">> \o name \o <<"'">>

\* lines 186-198 of validate_indicator
SideFieldsCheck(indicator, side, warns) ==
    IF side = "rhs"
    THEN IF Has(indicator, "multiplier") /\ ~IsNumber(indicator.f.multiplier)
         THEN Fail(<<"'multiplier' must be a number">>, warns)
         ELSE IF Has(indicator, "add_offset") /\ ~IsNumber(indicator.f.add_offset)
         THEN Fail(<<"'add_offset' must be a number">>, warns)
         ELSE Pass(warns)
    ELSE Pass(warns
              \o (IF Has(indicator, "multiplier")
                  THEN <<(<<"'multiplier' on LHS will be ignored - only valid for RHS">>)>>
                  ELSE <<>>)
              \o (IF Has(indicator, "add_offset")
                  THEN <<(<<"'add_offset' on LHS will be ignored - only valid for RHS">>)>>
                  ELSE <<>>))

\* "period" not in params, for whatever params is: "absent", "present", or
\* the exception the test raises
PeriodIn(params) ==
    CASE params.t = "dict" -> IF Has(params, "period") THEN "present" ELSE "absent"
      [] params.t = "list" ->
            IF InList(JStr(Chars_period), params.items) THEN "present" ELSE "absent"
      [] params.t = "str" ->
            IF IsSubstr(Chars_period, params.s) THEN "present" ELSE "absent"
      [] OTHER -> "TypeError"

\* lines 181-184 of validate_indicator: either the check goes on to the
\* side's fields with the warnings so far, or it ends with a result
GoOn(warns) == [go |-> TRUE, warns |-> warns]

EndWith(result) == [go |-> FALSE, result |-> result]

PeriodVerdict(name, warns, ind_config, params, found) ==
    CASE found = "TypeError" -> EndWith(Throw("TypeError", warns))
      [] found = "absent" ->
            GoOn(Append(warns, Quoted(name)
                        \o <<" missing 'period' - defaulting to ">>
                        \o IntStr(ind_config.default_period)))
      [] OTHER ->
            \* params["period"] of a list or a str raises
            IF ~IsDict(params) THEN EndWith(Throw("TypeError", warns))
            ELSE IF ~IsInt(params.f.period) \/ IntVal(params.f.period) < 1
            THEN EndWith(Fail(Quoted(name)
                              \o <<" period must be a positive integer">>, warns))
            ELSE GoOn(warns)

\* lines 186-200 of validate_indicator, after the period's verdict
AfterPeriod(indicator, side, p) ==
    IF p.go THEN SideFieldsCheck(indicator, side, p.warns)
    ELSE p.result

\* lines 177-200 of validate_indicator
PeriodCheck(indicator, side, name, warns, ind_config, params) ==
    IF ~ind_config.requires_period
    THEN SideFieldsCheck(indicator, side, warns)
    ELSE AfterPeriod(indicator, side,
             PeriodVerdict(name, warns, ind_config, params, PeriodIn(params)))

\* lines 166-168 of validate_indicator
TimeframeWarnings(indicator, name) ==
    IF ~Has(indicator, "timeframe")
    THEN <<(Quoted(name) \o <<" missing 'timeframe' - defaulting to 'daily'">>)>>
    ELSE <<>>

\* lines 163-200 of validate_indicator, name being the lowercased name
IndicatorNamed(indicator, side, name, warns) ==
    IF ~InRegistry(name)
    THEN Fail(<<"Unknown indicator ">> \o Quoted(name)
              \o <<". Valid indicators: [...]">>, <<>>)
    ELSE IF Has(indicator, "timeframe")
            /\ ~InList(indicator.f.timeframe, VALID_TIMEFRAMES)
    THEN Fail(<<"Invalid timeframe ">> \o Quoted(PyStr(indicator.f.timeframe))
              \o <<". Valid: ['daily', 'weekly', 'monthly']">>, warns)
    ELSE IF Has(indicator, "offset")
            /\ (~IsInt(indicator.f.offset) \/ IntVal(indicator.f.offset) < 0)
    THEN Fail(<<"'offset' must be a non-negative integer">>, warns)
    ELSE PeriodCheck(indicator, side, name, warns, Config(name),
                     Get(indicator, "params", EmptyDict))

\* indicator["name"].lower(), of a str
LowerName(indicator) == StrLower(indicator.f.name.s)

validate_indicator(indicator, side) ==
    IF ~Has(indicator, "name")
    THEN Fail(<<"Missing 'name' field">>, <<>>)
    ELSE IF ~IsStr(indicator.f.name)
    THEN Throw("AttributeError", <<>>)
    ELSE IndicatorNamed(indicator, side, LowerName(indicator),
                        TimeframeWarnings(indicator, LowerName(indicator)))

validate_operand(operand, side) ==
    IF ~IsDict(operand)
    THEN Fail(<<"Operand must be an object">>, <<>>)
    ELSE IF ~Has(operand, "type")
    THEN Fail(<<"Missing 'type' field">>, <<>>)
    ELSE IF operand.f.type = TYPE_VALUE
    THEN IF ~Has(operand, "value")
         THEN Fail(<<"Value type missing 'value' field">>, <<>>)
         ELSE IF ~IsNumber(operand.f.value)
         THEN Fail(<<"'value' must be a number">>, <<>>)
         ELSE Pass(<<>>)
    ELSE IF operand.f.type = TYPE_INDICATOR
    THEN validate_indicator(operand, side)
    ELSE Fail(<<"Invalid type ">> \o Quoted(PyStr(operand.f.type))
              \o <<". Must be 'indicator' or 'value'">>, <<>>)

\* lines 115-117 of validate_condition
ToleranceWarnings(condition, index) ==
    IF condition.f.operator = OP_APPROX /\ ~Has(condition, "tolerance")
    THEN <<(<<"Condition ">> \o IntStr(index + 1)
            \o <<": 'U+2248 (approx)' operator without 'tolerance' - defaulting to 1%">>)>>
    ELSE <<>>

\* lines 119-129 of validate_condition: the verdict on the two operands.
\* rhs is looked at only when lhs passed.
OperandsCheck(warns, lhs, rhs) ==
    IF lhs.exc # "" THEN Throw(lhs.exc, warns \o lhs.warns)
    ELSE IF ~lhs.ok
    THEN Fail(<<"LHS error: ">> \o lhs.err, warns \o lhs.warns)
    ELSE IF rhs.exc # "" THEN Throw(rhs.exc, warns \o lhs.warns \o rhs.warns)
    ELSE IF ~rhs.ok
    THEN Fail(<<"RHS error: ">> \o rhs.err, warns \o lhs.warns \o rhs.warns)
    ELSE Pass(warns \o lhs.warns \o rhs.warns)

validate_condition(condition, index) ==
    IF ~IsDict(condition)
    THEN Fail(<<"Condition must be an object">>, <<>>)
    ELSE IF ~Has(condition, "lhs")
    THEN Fail(<<"Missing 'lhs' (left-hand side)">>, <<>>)
    ELSE IF ~Has(condition, "operator")
    THEN Fail(<<"Missing 'operator'">>, <<>>)
    ELSE IF ~Has(condition, "rhs")
    THEN Fail(<<"Missing 'rhs' (right-hand side)">>, <<>>)
    ELSE IF ~InList(condition.f.operator, VALID_OPERATORS)
    THEN Fail(<<"Invalid operator ">> \o Quoted(PyStr(condition.f.operator))
              \o <<". Valid: [...]">>, <<>>)
    ELSE OperandsCheck(ToleranceWarnings(condition, index),
                       validate_operand(condition.f.lhs, "lhs"),
                       validate_operand(condition.f.rhs, "rhs"))

\* lines 88-91 of validate_strategy: the loop from the condition at 0-based
\* index i on, given self.errors and self.warnings so far.  LoopStep is the
\* rest of the loop once validate_condition has returned r for condition i.
RECURSIVE ConditionsLoop(_, _, _, _)
RECURSIVE LoopStep(_, _, _, _, _)
\* LoopStep with the loop left at the first condition that fails
LoopStep_StopAtFirst(conditions, i, errors, warnings, r) ==
    IF r.exc # ""
    THEN [exc |-> r.exc, errors |-> errors, warnings |-> warnings \o r.warns]
    ELSE IF ~r.ok
    THEN [exc |-> "",
          errors |-> Append(errors, <<"Condition ">> \o IntStr(i + 1)
                                    \o <<": ">> \o r.err),
          warnings |-> warnings \o r.warns]
    ELSE ConditionsLoop(conditions, i + 1, errors, warnings \o r.warns)

LoopStep(conditions, i, errors, warnings, r) ==
    IF r.exc # ""
    THEN [exc |-> r.exc, errors |-> errors, warnings |-> warnings \o r.warns]
    ELSE ConditionsLoop(conditions, i + 1,
             IF r.ok THEN errors
             ELSE Append(errors, <<"Condition ">> \o IntStr(i + 1)
                                 \o <<": ">> \o r.err),
             warnings \o r.warns)

ConditionsLoop(conditions, i, errors, warnings) ==
    IF i >= Len(conditions)
    THEN [exc |-> "", errors |-> errors, warnings |-> warnings]
    ELSE LoopStep(conditions, i, errors, warnings,
                  validate_condition(conditions[i + 1], i))

\* lines 70-74 of validate_strategy
NameErrors(strategy) ==
    IF ~Has(strategy, "name")
    THEN <<(<<"Missing required field: 'name'">>)>>
    ELSE IF ~IsStr(strategy.f.name) \/ StrStrip(strategy.f.name.s) = <<>>
    THEN <<(<<"'name' must be a non-empty string">>)>>
    ELSE <<>>

\* lines 76-78 of validate_strategy
DescriptionWarnings(strategy) ==
    IF ~Has(strategy, "description")
    THEN <<(<<"Missing 'description' field - recommended for clarity">>)>>
    ELSE <<>>

\* lines 80-91 of validate_strategy
ConditionsCheck(strategy, errors, warnings) ==
    IF ~Has(strategy, "conditions")
    THEN [exc |-> "",
          errors |-> Append(errors, <<"Missing required field: 'conditions'">>),
          warnings |-> warnings]
    ELSE IF ~IsList(strategy.f.conditions)
    THEN [exc |-> "",
          errors |-> Append(errors, <<"'conditions' must be an array">>),
          warnings |-> warnings]
    ELSE IF Len(strategy.f.conditions.items) = 0
    THEN [exc |-> "",
          errors |-> Append(errors, <<"'conditions' array cannot be empty">>),
          warnings |-> warnings]
    ELSE ConditionsLoop(strategy.f.conditions.items, 0, errors, warnings)

\* Verdict with a warning counted against validity
Verdict_WarningsCount(exc, errors, warnings) ==
    [exc |-> exc,
     is_valid |-> exc = "" /\ Len(errors) = 0 /\ Len(warnings) = 0,
     errors |-> errors,
     warnings |-> warnings]

\* lines 93-94 of validate_strategy: the (is_valid, errors, warnings)
\* returned, or exc and the two lists as the exception left them
Verdict(exc, errors, warnings) ==
    [exc |-> exc,
     is_valid |-> exc = "" /\ Len(errors) = 0,
     errors |-> errors,
     warnings |-> warnings]

VerdictOf(loop) == Verdict(loop.exc, loop.errors, loop.warnings)

validate_strategy(strategy) ==
    IF ~IsDict(strategy)
    THEN Verdict("", <<(<<"Strategy must be a JSON object">>)>>, <<>>)
    ELSE VerdictOf(ConditionsCheck(strategy, NameErrors(strategy),
                                   DescriptionWarnings(strategy)))

----------------------------------------------------------------------------
(* Sanitization: src/strategy_validator.py lines 202-306.  A function      *)
(* returns a value, None (JNull) or Raise(exc).                            *)

Chars_Unnamed ==
    <<"U", "n", "n", "a", "m", "e", "d", " ", "S", "t", "r", "a", "t", "e", "g", "y">>

Chars_Invalid ==
    <<"I", "n", "v", "a", "l", "i", "d", " ", "S", "t", "r", "a", "t", "e", "g", "y">>

Max(a, b) == IF a >= b THEN a ELSE b

\* lines 299-302 of _sanitize_operand, multiplier and add_offset being the
\* two float(...) results
RhsPut(operand, sanitized, multiplier, add_offset) ==
    IF Has(operand, "multiplier") /\ IsRaise(multiplier) THEN multiplier
    ELSE IF Has(operand, "add_offset") /\ IsRaise(add_offset) THEN add_offset
    ELSE JDict([k \in DOMAIN sanitized
                      \cup ({"multiplier", "add_offset"} \cap DOMAIN operand.f) |->
                  CASE k = "multiplier" -> multiplier
                    [] k = "add_offset" -> add_offset
                    [] OTHER -> sanitized[k]])

\* lines 298-304 of _sanitize_operand: the rhs-only fields put on sanitized
RhsFields(operand, side, sanitized) ==
    IF side # "rhs" THEN JDict(sanitized)
    ELSE RhsPut(operand, sanitized,
                PyFloat(Get(operand, "multiplier", JFloat(10))),
                PyFloat(Get(operand, "add_offset", JFloat(0))))

\* lines 271-273 of _sanitize_operand
RegistryName(given) == IF InRegistry(given) THEN given ELSE Chars_close

\* lines 278 and 283-284 of _sanitize_operand
TimeframeOf(operand) ==
    IF InList(Get(operand, "timeframe", TF_DAILY), VALID_TIMEFRAMES)
    THEN Get(operand, "timeframe", TF_DAILY)
    ELSE TF_DAILY

\* lines 288-295 of _sanitize_operand, params being a dict when a period is
\* required
ParamsOf(ind_config, params) ==
    IF ~ind_config.requires_period THEN EmptyDict
    ELSE IF ~IsInt(Get(params, "period", JInt(ind_config.default_period)))
            \/ IntVal(Get(params, "period", JInt(ind_config.default_period))) < 1
    THEN JDict([period |-> JInt(ind_config.default_period)])
    ELSE JDict([period |-> Get(params, "period", JInt(ind_config.default_period))])

\* lines 275-304 of _sanitize_operand: offset is int(...) of the offset
SanitizeNamed(operand, side, name, offset, ind_config, params) ==
    IF IsRaise(offset) THEN offset
    ELSE IF ind_config.requires_period /\ ~IsDict(params)
    THEN Raise("AttributeError")
    ELSE RhsFields(operand, side,
             [type |-> TYPE_INDICATOR,
              name |-> JStr(name),
              timeframe |-> TimeframeOf(operand),
              offset |-> JInt(Max(0, offset.n)),
              params |-> ParamsOf(ind_config, params)])

\* str(operand.get("name", "close")).lower(), then lines 272-273
NameOf(operand) ==
    RegistryName(StrLower(PyStr(Get(operand, "name", JStr(Chars_close)))))

\* lines 270-304 of _sanitize_operand
SanitizeIndicator(operand, side) ==
    SanitizeNamed(operand, side, NameOf(operand),
                  PyInt(Get(operand, "offset", JInt(0))),
                  Config(NameOf(operand)),
                  Get(operand, "params", EmptyDict))

\* lines 263-267 of _sanitize_operand, coerced being float(value)
CoerceValue(value, coerced) ==
    IF IsNumber(value) THEN value
    ELSE IF IsRaise(coerced) THEN JInt(0)
    ELSE coerced

\* _sanitize_operand with any type but 'value' taken for 'indicator'
_sanitize_operand_AnyTypeIndicator(operand, side) ==
    IF ~IsDict(operand) THEN JNull
    ELSE IF Get(operand, "type", TYPE_INDICATOR) = TYPE_VALUE
    THEN JDict([type |-> TYPE_VALUE,
                value |-> CoerceValue(Get(operand, "value", JInt(0)),
                                      PyFloat(Get(operand, "value", JInt(0))))])
    ELSE SanitizeIndicator(operand, side)

_sanitize_operand(operand, side) ==
    IF ~IsDict(operand) THEN JNull
    ELSE IF Get(operand, "type", TYPE_INDICATOR) = TYPE_VALUE
    THEN JDict([type |-> TYPE_VALUE,
                value |-> CoerceValue(Get(operand, "value", JInt(0)),
                                      PyFloat(Get(operand, "value", JInt(0))))])
    ELSE IF Get(operand, "type", TYPE_INDICATOR) = TYPE_INDICATOR
    THEN SanitizeIndicator(operand, side)
    ELSE JNull

\* OperatorOf with the operator given left as it is
OperatorOf_AsGiven(condition) == Get(condition, "operator", OP_GT)

\* lines 237 and 245-246 of _sanitize_condition
OperatorOf(condition) ==
    IF InList(Get(condition, "operator", OP_GT), VALID_OPERATORS)
    THEN Get(condition, "operator", OP_GT)
    ELSE OP_GT

\* WithTolerance that keeps a tolerance given and puts none of its own
WithTolerance_OnlyGiven(condition, sanitized) ==
    IF sanitized.operator = OP_APPROX /\ Has(condition, "tolerance")
    THEN sanitized @@ ("tolerance" :> condition.f.tolerance)
    ELSE sanitized

\* lines 248-250 of _sanitize_condition
WithTolerance(condition, sanitized) ==
    IF sanitized.operator = OP_APPROX
    THEN sanitized @@ ("tolerance" :> Get(condition, "tolerance", JFloat(10)))
    ELSE sanitized

\* lines 235-252 of _sanitize_condition, lhs and rhs being the two
\* _sanitize_operand results
SanitizedPair(condition, lhs, rhs) ==
    IF IsRaise(lhs) THEN lhs
    ELSE IF IsRaise(rhs) THEN rhs
    ELSE IF lhs = JNull \/ rhs = JNull THEN JNull
    ELSE JDict(WithTolerance(condition,
                   [lhs |-> lhs, operator |-> OperatorOf(condition), rhs |-> rhs]))

_sanitize_condition(condition) ==
    IF ~Has(condition, "lhs") \/ ~Has(condition, "rhs") THEN JNull
    ELSE SanitizedPair(condition,
                       _sanitize_operand(condition.f.lhs, "lhs"),
                       _sanitize_operand(condition.f.rhs, "rhs"))

\* lines 220-226 of sanitize_strategy: the sanitized conditions kept, or the
\* exception that left the loop.  KeepStep is the rest of the loop once
\* _sanitize_condition has returned sanitized_condition for the first one.
RECURSIVE SanitizeLoop(_, _)
RECURSIVE KeepStep(_, _, _)
KeepStep(conditions, kept, sanitized_condition) ==
    IF IsRaise(sanitized_condition) THEN sanitized_condition
    ELSE IF sanitized_condition = JNull
    THEN SanitizeLoop(Tail(conditions), kept)
    ELSE SanitizeLoop(Tail(conditions), Append(kept, sanitized_condition))

SanitizeLoop(conditions, kept) ==
    IF conditions = <<>> THEN JList(kept)
    ELSE IF ~IsDict(Head(conditions)) THEN SanitizeLoop(Tail(conditions), kept)
    ELSE KeepStep(conditions, kept, _sanitize_condition(Head(conditions)))

\* lines 216-218 of sanitize_strategy
ConditionsOf(strategy) ==
    IF IsList(Get(strategy, "conditions", JList(<<>>)))
    THEN Get(strategy, "conditions", JList(<<>>)).items
    ELSE <<>>

\* lines 210-228 of sanitize_strategy, kept being what the loop left
Sanitized(strategy, name, kept) ==
    IF ~IsStr(name) THEN Raise("AttributeError")
    ELSE IF IsRaise(kept) THEN kept
    ELSE JDict([name |-> JStr(StrStrip(name.s)),
                description |-> Get(strategy, "description", JStr(<<>>)),
                conditions |-> kept])

\* sanitize_strategy with the default name for an input that is no object
sanitize_strategy_UnnamedFallback(strategy) ==
    IF ~IsDict(strategy)
    THEN JDict([name |-> JStr(Chars_Unnamed), description |-> JStr(<<>>),
                conditions |-> JList(<<>>)])
    ELSE Sanitized(strategy, Get(strategy, "name", JStr(Chars_Unnamed)),
                   SanitizeLoop(ConditionsOf(strategy), <<>>))

sanitize_strategy(strategy) ==
    IF ~IsDict(strategy)
    THEN JDict([name |-> JStr(Chars_Invalid), description |-> JStr(<<>>),
                conditions |-> JList(<<>>)])
    ELSE Sanitized(strategy, Get(strategy, "name", JStr(Chars_Unnamed)),
                   SanitizeLoop(ConditionsOf(strategy), <<>>))

----------------------------------------------------------------------------
(* The JSON-like values the functions are applied to.                      *)

MaxConds == 2

With(f, key, val) == [k \in DOMAIN f \cup {key} |-> IF k = key THEN val ELSE f[k]]

Without(f, key) == [k \in DOMAIN f \ {key} |-> f[k]]

Chars_rsi == <<"r", "s", "i">>

Chars_abc == <<"a", "b", "c">>

FullRsi ==
    JDict([type |-> TYPE_INDICATOR, name |-> JStr(Chars_rsi),
           timeframe |-> TF_DAILY, offset |-> JInt(0),
           params |-> JDict([period |-> JInt(14)])])

BareRsi == JDict([type |-> TYPE_INDICATOR, name |-> JStr(Chars_rsi)])

BareClose == JDict([type |-> TYPE_INDICATOR, name |-> JStr(Chars_close)])

Value30 == JDict([type |-> TYPE_VALUE, value |-> JInt(30)])

IndicatorBases == {FullRsi, BareRsi, BareClose}

\* one field of an indicator operand set to a value
FieldAlternatives ==
    {<<"type", v>> : v \in {TYPE_VALUE, JStr(<<"b", "o", "g", "u", "s">>), JInt(5)}}
    \cup {<<"name", v>> : v \in {JStr(<<"R", "S", "I">>), JStr(<<"R", "s", "i">>),
                                 JStr(Chars_sma), JStr(<<"N", "O", "P", "E">>),
                                 JStr(<<" ", "r", "s", "i">>), JInt(5), JNull}}
    \cup {<<"timeframe", v>> : v \in {VALID_TIMEFRAMES[2],
                                      JStr(<<"h", "o", "u", "r", "l", "y">>), JNull}}
    \cup {<<"offset", v>> : v \in {JInt(2), JInt(-5), JNull, JStr(Chars_abc),
                                   JStr(<<"4">>), JFloat(37), JFloat(-12),
                                   JBool(TRUE)}}
    \cup {<<"params", v>> : v \in {EmptyDict, JDict([period |-> JInt(10)]),
                                   JDict([period |-> JInt(0)]),
                                   JDict([period |-> JStr(<<"x">>)]),
                                   JDict([period |-> JBool(TRUE)]),
                                   JDict([period |-> JFloat(100)]),
                                   JList(<<>>), JList(<<JStr(Chars_period)>>),
                                   JStr(Chars_period), JStr(Chars_abc),
                                   JInt(5), JNull}}
    \cup {<<"multiplier", v>> : v \in {JInt(2), JFloat(15), JStr(<<"x">>),
                                       JStr(<<"2", ".", "5">>), JNull}}
    \cup {<<"add_offset", v>> : v \in {JFloat(-5), JStr(<<"x">>), JBool(TRUE)}}

IndicatorInputs ==
    IndicatorBases
    \cup {JDict(With(b.f, p[1], p[2])) : b \in IndicatorBases, p \in FieldAlternatives}
    \cup {JDict(Without(b.f, k)) : b \in IndicatorBases, k \in {"type", "name"}}

ValueInputs ==
    {JDict([type |-> TYPE_VALUE]), JDict([value |-> JInt(30)])}
    \cup {JDict([type |-> TYPE_VALUE, value |-> v]) :
            v \in {JInt(30), JFloat(25), JStr(Chars_abc), JStr(<<"7">>),
                   JStr(<<" ", "-", "2", ".", "5">>), JNull, JBool(TRUE),
                   JList(<<>>)}}

OperandInputs == IndicatorInputs \cup ValueInputs \cup {JNull, JInt(5), JList(<<>>)}

OP_LT == VALID_OPERATORS[2]

\* the spelling of the approximate-equality operator without its space
OP_APPROX_NOSPACE == JStr(<<"U+2248", "(", "a", "p", "p", "r", "o", "x", ")">>)

OP_TILDE == JStr(<<"~", "=">>)

Cond(lhs, operator, rhs) == JDict([lhs |-> lhs, operator |-> operator, rhs |-> rhs])

GoodCond == Cond(FullRsi, OP_LT, Value30)

\* valid, with warnings: no timeframe, no period, no tolerance, multiplier on lhs
WarnCond ==
    JDict([lhs |-> JDict(With(BareRsi.f, "multiplier", JInt(2))),
           operator |-> OP_APPROX,
           rhs |-> JDict(With(BareClose.f, "multiplier", JInt(2)))])

\* an invalid operator, an invalid lhs and an invalid rhs at once
ManyDefectsCond ==
    Cond(JDict(With(FullRsi.f, "timeframe", JStr(<<"h", "o", "u", "r", "l", "y">>))),
         OP_TILDE,
         JDict([type |-> TYPE_VALUE, value |-> JStr(Chars_abc)]))

OperatorInputs ==
    {Cond(FullRsi, op, Value30) :
        op \in {OP_GT, OP_APPROX, OP_APPROX_NOSPACE, OP_TILDE, JInt(5), JNull}}

ConditionInputs ==
    {Cond(l, OP_LT, Value30) : l \in OperandInputs}
    \cup {Cond(FullRsi, OP_GT, r) : r \in OperandInputs}
    \cup OperatorInputs
    \cup {JDict(With(c.f, "tolerance", v)) :
            c \in OperatorInputs, v \in {JFloat(5), JStr(<<"x">>)}}
    \cup {JDict(Without(GoodCond.f, k)) : k \in {"lhs", "operator", "rhs"}}
    \cup {WarnCond, ManyDefectsCond,
          Cond(JNull, OP_TILDE, JNull),
          JDict(Without(ManyDefectsCond.f, "operator")),
          EmptyDict, JNull, JInt(5), JList(<<>>)}

\* the conditions that lists of several conditions are made of
CondPool ==
    {GoodCond, WarnCond, ManyDefectsCond,
     Cond(FullRsi, OP_TILDE, Value30),
     JDict(Without(GoodCond.f, "lhs")),
     Cond(JDict(With(FullRsi.f, "type", JStr(<<"b", "o", "g", "u", "s">>))),
          OP_LT, Value30),
     Cond(JDict(With(BareRsi.f, "name", JInt(5))), OP_LT, Value30),
     Cond(FullRsi, OP_GT, JDict(With(BareClose.f, "offset", JNull))),
     Cond(JDict(Without(BareRsi.f, "type")), OP_LT, Value30),
     JInt(5)}

NameInputs ==
    {JStr(<<"O", "v", "e", "r", "s", "o", "l", "d">>),
     JStr(<<" ", "x", " ", "\n">>), JStr(<<>>), JStr(<<" ", "\t">>),
     JInt(5), JNull}

GoodName == JStr(<<"O", "v", "e", "r", "s", "o", "l", "d">>)

DescriptionInputs == {JStr(<<"d">>), JInt(5)}

\* a dict of the keys given: a field is left out when its value is Absent
Absent == [t |-> "absent"]

Strategy(name, description, conditions) ==
    LET all == [name |-> name, description |-> description,
                conditions |-> conditions]
    IN  JDict([k \in {j \in DOMAIN all : all[j] # Absent} |-> all[k]])

ConditionLists ==
    UNION {[1..k -> CondPool] : k \in 2..MaxConds}

StrategyInputs ==
    {Strategy(n, d, cs) :
        n \in NameInputs \cup {Absent},
        d \in DescriptionInputs \cup {Absent},
        cs \in {Absent, JNull, EmptyDict, JList(<<>>), JList(<<GoodCond>>),
                JList(<<WarnCond>>)}}
    \cup {Strategy(GoodName, d, JList(<<c>>)) :
            d \in {JStr(<<"d">>), Absent}, c \in ConditionInputs}
    \cup {Strategy(GoodName, JStr(<<"d">>), JList(cs)) : cs \in ConditionLists}
    \cup {JNull, JInt(5), JBool(TRUE), JStr(Chars_abc), JList(<<>>),
          JList(<<GoodCond>>)}

----------------------------------------------------------------------------
(* The entry point: src/strategy_validator.py lines 329-355.  A JSON text  *)
(* is held as what json.loads makes of it: the value it encodes, or        *)
(* nothing when it is malformed.                                           *)

JsonText(v) == [wf |-> TRUE, val |-> v]

Malformed == [wf |-> FALSE]

json_loads(json_str) ==
    IF json_str.wf THEN json_str.val ELSE Raise("JSONDecodeError")

\* sep.join(msgs)
RECURSIVE Join(_, _)
Join(sep, msgs) ==
    IF msgs = <<>> THEN <<>>
    ELSE IF Len(msgs) = 1 THEN msgs[1]
    ELSE msgs[1] \o <<sep>> \o Join(sep, Tail(msgs))

\* lines 344-350 and 354-355 of validate_json_string: what is returned
\* once validate_strategy said valid, sanitized being what
\* sanitize_strategy returned or raised
EntrySanitized(sanitized) ==
    IF IsRaise(sanitized)
    THEN [is_valid |-> FALSE, strategy |-> JNull,
          error |-> <<"Validation error: ", sanitized.exc>>,
          calls |-> <<"json.loads", "validate_strategy", "sanitize_strategy">>]
    ELSE [is_valid |-> TRUE, strategy |-> sanitized, error |-> <<>>,
          calls |-> <<"json.loads", "validate_strategy", "sanitize_strategy">>]

\* lines 342-355 of validate_json_string, v being what validate_strategy
\* returned or raised
EntryValidated(parsed, v) ==
    IF v.exc # ""
    THEN [is_valid |-> FALSE, strategy |-> JNull,
          error |-> <<"Validation error: ", v.exc>>,
          calls |-> <<"json.loads", "validate_strategy">>]
    ELSE IF ~v.is_valid
    THEN [is_valid |-> FALSE, strategy |-> JNull,
          error |-> Join("; ", v.errors),
          calls |-> <<"json.loads", "validate_strategy">>]
    ELSE EntrySanitized(sanitize_strategy(parsed))

\* lines 338-355 of validate_json_string, parsed being what json.loads
\* returned or raised
EntryParsed(parsed) ==
    IF IsRaise(parsed)
    THEN [is_valid |-> FALSE, strategy |-> JNull,
          error |-> <<"Invalid JSON: ", "<decoder message>">>,
          calls |-> <<"json.loads">>]
    ELSE EntryValidated(parsed, validate_strategy(parsed))

\* The tuple returned, and the calls made to get it.
validate_json_string(json_str) == EntryParsed(json_loads(json_str))

----------------------------------------------------------------------------
(* The state.  Three ways of using the code are followed, each by a        *)
(* specification of its own; the variables of the other two stay as they   *)
(* are set at the start.                                                   *)

\* the calls a client makes on one strategy-like value
VARIABLES strategy, sanitized, resanitized, validated, revalidated, entry

\* one run of OllamaClient.parse_strategy_from_nl: its argument auto_fix,
\* and in nl its position, its locals, the calls made and what it returned
VARIABLES auto_fix, nl

\* one StrategyValidator used by two threads: the list objects by identity,
\* the instance fields self.errors and self.warnings, each thread's call,
\* and whether the two calls were ever in progress together
VARIABLES heap, self_errors, self_warnings, calls, overlapped

callVars == <<strategy, sanitized, resanitized, validated, revalidated, entry>>

nlVars == <<auto_fix, nl>>

threadVars == <<heap, self_errors, self_warnings, calls, overlapped>>

vars == <<callVars, nlVars, threadVars>>

Unset == [t |-> "unset"]

NoCalls ==
    /\ strategy = Unset
    /\ sanitized = Unset
    /\ resanitized = Unset
    /\ validated = Unset
    /\ revalidated = Unset
    /\ entry = Unset

NoRun == auto_fix = Unset /\ nl = Unset

NoThreads ==
    /\ heap = Unset
    /\ self_errors = Unset
    /\ self_warnings = Unset
    /\ calls = Unset
    /\ overlapped = Unset

----------------------------------------------------------------------------
(* The calls a client makes on one strategy-like value.                    *)

Init ==
    /\ strategy \in StrategyInputs
    /\ sanitized = Unset
    /\ resanitized = Unset
    /\ validated = Unset
    /\ revalidated = Unset
    /\ entry = Unset
    /\ NoRun
    /\ NoThreads

\* sanitize_strategy(strategy)
Sanitize ==
    /\ sanitized = Unset
    /\ sanitized' = sanitize_strategy(strategy)
    /\ UNCHANGED <<strategy, resanitized, validated, revalidated, entry>>
    /\ UNCHANGED <<nlVars, threadVars>>

\* sanitize_strategy of what sanitize_strategy returned
Resanitize ==
    /\ sanitized # Unset /\ ~IsRaise(sanitized)
    /\ resanitized = Unset
    /\ resanitized' = sanitize_strategy(sanitized)
    /\ UNCHANGED <<strategy, sanitized, validated, revalidated, entry>>
    /\ UNCHANGED <<nlVars, threadVars>>

\* validate_strategy(strategy)
Validate ==
    /\ validated = Unset
    /\ validated' = validate_strategy(strategy)
    /\ UNCHANGED <<strategy, sanitized, resanitized, revalidated, entry>>
    /\ UNCHANGED <<nlVars, threadVars>>

\* validate_strategy of what sanitize_strategy returned
Revalidate ==
    /\ sanitized # Unset /\ ~IsRaise(sanitized)
    /\ revalidated = Unset
    /\ revalidated' = validate_strategy(sanitized)
    /\ UNCHANGED <<strategy, sanitized, resanitized, validated, entry>>
    /\ UNCHANGED <<nlVars, threadVars>>

\* validate_json_string of a text: malformed, or the encoding of strategy
ValidateJsonString ==
    /\ entry = Unset
    /\ \E json_str \in {Malformed, JsonText(strategy)} :
          entry' = [json_str |-> json_str, result |-> validate_json_string(json_str)]
    /\ UNCHANGED <<strategy, sanitized, resanitized, validated, revalidated>>
    /\ UNCHANGED <<nlVars, threadVars>>

Next ==
    \/ Sanitize
    \/ Resanitize
    \/ Validate
    \/ Revalidate
    \/ ValidateJsonString

Spec == Init /\ [][Next]_vars

----------------------------------------------------------------------------
(* Properties of the calls                                                 *)

\* C1: for any input x, validate_strategy(sanitize_strategy(x)) returns
\* is_valid = True: what the sanitizer returns is itself a valid strategy.
C1_SanitizedIsValid ==
    revalidated # Unset => revalidated.exc = "" /\ revalidated.is_valid

\* C2: sanitize_strategy is total: for every JSON-like input it returns a
\* strategy and never raises.
C2_SanitizeNeverRaises ==
    sanitized # Unset => ~IsRaise(sanitized)

\* C3: for any input x, sanitize_strategy(sanitize_strategy(x)) is
\* structurally equal to sanitize_strategy(x).
C3_SanitizeIdempotent ==
    sanitized # Unset =>
        /\ ~IsRaise(sanitized)
        /\ resanitized # Unset => resanitized = sanitized

\* C3, on the inputs sanitize_strategy returns for: the second sanitization
\* returns the same value.
C3_IdempotentWhereItReturns ==
    resanitized # Unset => resanitized = sanitized

\* C4: validate_strategy never raises: every problem is an entry of the
\* error list and the call returns (is_valid, errors, warnings).
C4_ValidateNeverRaises ==
    validated # Unset => validated.exc = ""

\* The defects of one condition, in the order validate_condition looks for
\* them; an operand's defect is the reason validate_operand gives for it.
OperandDefect(prefix, r) ==
    IF r.exc = "" /\ ~r.ok THEN <<prefix \o r.err>> ELSE <<>>

DefectList(c) ==
    IF ~IsDict(c) THEN <<(<<"Condition must be an object">>)>>
    ELSE (IF ~Has(c, "lhs") THEN <<(<<"Missing 'lhs' (left-hand side)">>)>> ELSE <<>>)
         \o (IF ~Has(c, "operator") THEN <<(<<"Missing 'operator'">>)>> ELSE <<>>)
         \o (IF ~Has(c, "rhs") THEN <<(<<"Missing 'rhs' (right-hand side)">>)>> ELSE <<>>)
         \o (IF Has(c, "operator") /\ ~InList(c.f.operator, VALID_OPERATORS)
             THEN <<(<<"Invalid operator ">> \o Quoted(PyStr(c.f.operator))
                     \o <<". Valid: [...]">>)>>
             ELSE <<>>)
         \o (IF Has(c, "lhs")
             THEN OperandDefect(<<"LHS error: ">>, validate_operand(c.f.lhs, "lhs"))
             ELSE <<>>)
         \o (IF Has(c, "rhs")
             THEN OperandDefect(<<"RHS error: ">>, validate_operand(c.f.rhs, "rhs"))
             ELSE <<>>)

ConditionLabel(i) == <<"Condition ">> \o IntStr(i) \o <<": ">>

\* for the conditions from the i-th on: one entry per condition that has a
\* defect, naming its first defect
RECURSIVE FirstDefects(_, _)
FirstDefects(conds, i) ==
    IF i > Len(conds) THEN <<>>
    ELSE (IF DefectList(conds[i]) = <<>> THEN <<>>
          ELSE <<ConditionLabel(i) \o Head(DefectList(conds[i]))>>)
         \o FirstDefects(conds, i + 1)

\* validate_strategy has returned for a strategy object whose conditions
\* are a non-empty list
ReturnedForConditions ==
    /\ validated # Unset /\ validated.exc = ""
    /\ IsDict(strategy) /\ Has(strategy, "conditions")
    /\ IsList(strategy.f.conditions)
    /\ Len(strategy.f.conditions.items) > 0

AllConditionsPass(conds) ==
    \A i \in 1..Len(conds) :
        /\ validate_condition(conds[i], i - 1).exc = ""
        /\ validate_condition(conds[i], i - 1).ok

\* C6, as claimed: for every strategy object in which every condition
\* passes the Condition Validator, validate_strategy returns is_valid = True
\* and an empty error list.
C6_PassingConditionsValid ==
    (/\ validated # Unset
     /\ IsDict(strategy) /\ Has(strategy, "conditions")
     /\ IsList(strategy.f.conditions)
     /\ AllConditionsPass(strategy.f.conditions.items))
    => validated.exc = "" /\ validated.is_valid /\ validated.errors = <<>>

\* the strategy is an object with a name that is a str, not blank, and a
\* non-empty list of conditions that all pass
WellFormedAndPassing ==
    /\ IsDict(strategy)
    /\ Has(strategy, "name") /\ IsStr(strategy.f.name)
    /\ StrStrip(strategy.f.name.s) # <<>>
    /\ Has(strategy, "conditions") /\ IsList(strategy.f.conditions)
    /\ Len(strategy.f.conditions.items) > 0
    /\ AllConditionsPass(strategy.f.conditions.items)

\* C6, amended: for every strategy object with a name that is a non-blank
\* string and a non-empty list of conditions, in which every condition
\* passes the Condition Validator, validate_strategy returns is_valid = True
\* and an empty error list, whatever the number of warnings.
C6_WellFormedPassingValid ==
    (validated # Unset /\ WellFormedAndPassing)
    => validated.exc = "" /\ validated.is_valid /\ validated.errors = <<>>

\* such a strategy validated with several warnings
C6_Witness ==
    /\ validated # Unset /\ WellFormedAndPassing
    /\ Len(validated.warnings) >= 3

\* C7: validate_json_string has exactly three outcomes: (False, None,
\* 'Invalid JSON...') on a parse failure; (True, sanitize_strategy(parsed),
\* '') when the parsed value validates; (False, None, the errors joined by
\* '; ') with the sanitizer not run when it does not.
C7_ThreeOutcomes ==
    entry # Unset =>
        LET parsed == json_loads(entry.json_str)
            result == entry.result
        IN  IF IsRaise(parsed)
            THEN /\ ~result.is_valid /\ result.strategy = JNull
                 /\ Head(result.error) = "Invalid JSON: "
            ELSE IF validate_strategy(parsed).is_valid
            THEN /\ result.is_valid /\ result.error = <<>>
                 /\ result.strategy = sanitize_strategy(parsed)
            ELSE /\ ~result.is_valid /\ result.strategy = JNull
                 /\ result.error = Join("; ", validate_strategy(parsed).errors)
                 /\ ~InList("sanitize_strategy", result.calls)

\* C10: validate_strategy(sanitize_strategy(x)) returns an empty warning
\* list, for any input x on which sanitize_strategy returns.
C10_NoWarningsAfterSanitize ==
    revalidated # Unset => revalidated.exc = "" /\ revalidated.warnings = <<>>

\* an input with five warnings and more, sanitized and validated again
C10_Witness ==
    /\ validated # Unset /\ validated.exc = "" /\ Len(validated.warnings) >= 5
    /\ revalidated # Unset

----------------------------------------------------------------------------
(* The natural-language pipeline: src/ollama_client.py lines 119-160,      *)
(* 201-288 and 310-359.  The text the LLM answers is a sequence of pieces: *)
(* prose (no brace, no backtick), white space, a code fence, or a JSON     *)
(* text as JsonText or Malformed above, Malformed being text with an       *)
(* opening brace that nothing closes.                                      *)

Prose == [seg |-> "prose"]

Space == [seg |-> "space"]

\* three backticks
Fence == [seg |-> "fence"]

\* three backticks and the word json
FenceJson == [seg |-> "fence json"]

IsFence(piece) == piece \in {Fence, FenceJson}

IsJsonPiece(piece) == "wf" \in DOMAIN piece

\* text.strip()
RECURSIVE TextLStrip(_)
TextLStrip(text) ==
    IF text # <<>> /\ Head(text) = Space THEN TextLStrip(Tail(text)) ELSE text

RECURSIVE TextRStrip(_)
TextRStrip(text) ==
    IF text # <<>> /\ text[Len(text)] = Space
    THEN TextRStrip(SubSeq(text, 1, Len(text) - 1))
    ELSE text

TextStrip(text) == TextRStrip(TextLStrip(text))

Least(S) == CHOOSE x \in S : \A y \in S : x <= y

\* the first '{' of a JSON text and the '}' that closes it: the first object
\* the value holds, if it holds one
NoObject == [t |-> "none"]

RECURSIVE FirstObject(_)
RECURSIVE FirstObjectFrom(_, _)
FirstObjectOr(found, items, i) ==
    IF found # NoObject THEN found ELSE FirstObjectFrom(items, i + 1)

FirstObjectFrom(items, i) ==
    IF i > Len(items) THEN NoObject
    ELSE FirstObjectOr(FirstObject(items[i]), items, i)

FirstObject(v) ==
    IF IsDict(v) THEN v
    ELSE IF IsList(v) THEN FirstObjectFrom(v.items, 1)
    ELSE NoObject

HasBrace(piece) ==
    IsJsonPiece(piece) /\ (piece.wf => FirstObject(piece.val) # NoObject)

\* lines 216-218 of _extract_json: the text between the first fence and
\* the next one
FencedBlock(text, fences) ==
    TextStrip(SubSeq(text, Least(fences) + 1,
                     Least(fences \ {Least(fences)}) - 1))

\* lines 222-240 of _extract_json: from the first '{' to the '}' that
\* brings the depth back to 0, or the whole text
BraceMatched(text, braces) ==
    IF braces = {} THEN text
    ELSE IF text[Least(braces)].wf
    THEN <<JsonText(FirstObject(text[Least(braces)].val))>>
    ELSE text

ExtractFrom(text) ==
    IF Cardinality({i \in 1..Len(text) : IsFence(text[i])}) >= 2
    THEN FencedBlock(text, {i \in 1..Len(text) : IsFence(text[i])})
    ELSE BraceMatched(text, {i \in 1..Len(text) : HasBrace(text[i])})

_extract_json(text) == ExtractFrom(TextStrip(text))

\* json.loads of a text in pieces: white space around the value is allowed
LoadsStripped(text) ==
    IF Len(text) = 1 /\ IsJsonPiece(text[1])
    THEN json_loads(text[1])
    ELSE Raise("JSONDecodeError")

LoadsText(text) == LoadsStripped(TextStrip(text))

\* what generate returns: (success, response_text, error_message)
Generated(response) == [success |-> TRUE, response |-> response, error |-> <<>>]

NotGenerated(error) == [success |-> FALSE, response |-> <<>>, error |-> error]

\* the LLM's answers: a text in one of three wrappings, or no JSON at all
Wrappings(piece) ==
    {<<piece>>,
     <<Prose, Space, piece, Space, Prose>>,
     <<Prose, Space, FenceJson, Space, piece, Space, Fence, Space>>}

Responses ==
    UNION {Wrappings(JsonText(x)) : x \in StrategyInputs}
    \cup Wrappings(Malformed)
    \cup {<<>>, <<Space>>, <<Prose>>, <<Prose, Fence, Space, Fence>>}

GenerateOutcomes ==
    {Generated(r) : r \in Responses}
    \cup {NotGenerated(<<"Ollama error: ", "<status>", " - ", "<text>">>),
          NotGenerated(<<"Request timed out. The model might be loading or the query is too complex.">>),
          NotGenerated(<<"Cannot connect to Ollama. Please ensure it's running.">>),
          NotGenerated(<<"Error generating response: ", "<exception>">>)}

\* lines 336-359: _basic_explanation calls capitalize() on the timeframe
\* of every lhs and joins the description with the other lines
BadLhsTimeframe(cond) ==
    /\ Has(cond, "lhs") /\ IsDict(cond.f.lhs)
    /\ Has(cond.f.lhs, "timeframe") /\ ~IsStr(cond.f.lhs.f.timeframe)

_basic_explanation(s) ==
    IF \E i \in 1..Len(s.f.conditions.items) :
          BadLhsTimeframe(s.f.conditions.items[i])
    THEN Raise("AttributeError")
    ELSE IF Has(s, "description") /\ ~IsStr(s.f.description)
    THEN Raise("TypeError")
    ELSE JStr(<<"<basic explanation>">>)

\* lines 310-334, llm being whether generate succeeds this time
_generate_explanation(s, llm) ==
    IF llm THEN JStr(<<"<LLM explanation>">>) ELSE _basic_explanation(s)

\* the tuple (success, strategy_dict, ai_explanation, error_message)
Failure(error) ==
    [t |-> "tuple", success |-> FALSE, strategy |-> JNull,
     explanation |-> JStr(<<>>), error |-> error]

Success(s, explanation) ==
    [t |-> "tuple", success |-> TRUE, strategy |-> s,
     explanation |-> explanation, error |-> <<>>]

\* the run with one more call made: ok is whether the call gave what the
\* next step needs, exc the exception it raised, errors the error list of
\* a validation
Logged(run, step, ok, exc, errors) ==
    [run EXCEPT !.trace =
        Append(@, [step |-> step, ok |-> ok, exc |-> exc, errors |-> errors])]

Ended(run, returned) == [run EXCEPT !.pc = "done", !.returned = returned]

At(run, pc) == [run EXCEPT !.pc = pc]

\* lines 254-257
AfterGenerate(run, out) ==
    IF ~out.success
    THEN Ended(Logged(run, "generate", FALSE, "", <<>>), Failure(out.error))
    ELSE [Logged(run, "generate", TRUE, "", <<>>)
            EXCEPT !.pc = "extract", !.response = out.response]

\* lines 260-263
AfterExtract(run, json_str) ==
    IF json_str = <<>>
    THEN Ended(Logged(run, "_extract_json", FALSE, "", <<>>),
               Failure(<<"Could not extract JSON from LLM response">>))
    ELSE [Logged(run, "_extract_json", TRUE, "", <<>>)
            EXCEPT !.pc = "parse", !.json_str = json_str]

\* lines 266-269
AfterParse(run, parsed) ==
    IF IsRaise(parsed)
    THEN Ended(Logged(run, "json.loads", FALSE, "", <<>>),
               Failure(<<"Invalid JSON from LLM: ", "<decoder message>">>))
    ELSE [Logged(run, "json.loads", TRUE, "", <<>>)
            EXCEPT !.pc = "validate", !.parsed = parsed, !.strategy = parsed]

\* lines 272-283, v being what validate_strategy returned or raised
AfterValidate(run, v, fix) ==
    IF v.exc # ""
    THEN Ended(Logged(run, "validate_strategy", FALSE, v.exc, v.errors),
               Raise(v.exc))
    ELSE IF v.is_valid
    THEN At(Logged(run, "validate_strategy", TRUE, "", v.errors), "explain")
    ELSE IF fix
    THEN At(Logged(run, "validate_strategy", FALSE, "", v.errors), "sanitize")
    ELSE Ended(Logged(run, "validate_strategy", FALSE, "", v.errors),
               Failure(<<"Invalid strategy: ">> \o Join("; ", v.errors)))

\* line 277, s being what sanitize_strategy returned or raised
AfterSanitize(run, s) ==
    IF IsRaise(s)
    THEN Ended(Logged(run, "sanitize_strategy", FALSE, s.exc, <<>>), Raise(s.exc))
    ELSE [Logged(run, "sanitize_strategy", TRUE, "", <<>>)
            EXCEPT !.pc = "revalidate", !.strategy = s]

\* lines 278-281
AfterRevalidate(run, v) ==
    IF v.exc # ""
    THEN Ended(Logged(run, "validate_strategy", FALSE, v.exc, v.errors),
               Raise(v.exc))
    ELSE IF v.is_valid
    THEN At(Logged(run, "validate_strategy", TRUE, "", v.errors), "explain")
    ELSE Ended(Logged(run, "validate_strategy", FALSE, "", v.errors),
               Failure(<<"Could not fix strategy: ">> \o Join("; ", v.errors)))

\* lines 286-288
AfterExplain(run, explanation) ==
    IF IsRaise(explanation)
    THEN Ended(Logged(run, "_generate_explanation", FALSE, explanation.exc, <<>>),
               Raise(explanation.exc))
    ELSE Ended(Logged(run, "_generate_explanation", TRUE, "", <<>>),
               Success(run.strategy, explanation))

InitNL ==
    /\ auto_fix \in BOOLEAN
    /\ nl = [pc |-> "generate", response |-> Unset, json_str |-> Unset,
             parsed |-> Unset, strategy |-> Unset, trace |-> <<>>,
             returned |-> Unset]
    /\ NoCalls
    /\ NoThreads

\* success, response, error = self.generate(natural_language)
Generate ==
    /\ nl.pc = "generate"
    /\ \E out \in GenerateOutcomes : nl' = AfterGenerate(nl, out)
    /\ UNCHANGED <<auto_fix, callVars, threadVars>>

\* json_str = self._extract_json(response)
ExtractJson ==
    /\ nl.pc = "extract"
    /\ nl' = AfterExtract(nl, _extract_json(nl.response))
    /\ UNCHANGED <<auto_fix, callVars, threadVars>>

\* strategy = json.loads(json_str)
ParseJson ==
    /\ nl.pc = "parse"
    /\ nl' = AfterParse(nl, LoadsText(nl.json_str))
    /\ UNCHANGED <<auto_fix, callVars, threadVars>>

\* is_valid, errors, warnings = self.validator.validate_strategy(strategy)
ValidateParsed ==
    /\ nl.pc = "validate"
    /\ nl' = AfterValidate(nl, validate_strategy(nl.strategy), auto_fix)
    /\ UNCHANGED <<auto_fix, callVars, threadVars>>

\* strategy = self.validator.sanitize_strategy(strategy)
SanitizeInvalid ==
    /\ nl.pc = "sanitize"
    /\ nl' = AfterSanitize(nl, sanitize_strategy(nl.strategy))
    /\ UNCHANGED <<auto_fix, callVars, threadVars>>

\* the validate_strategy call of line 278
RevalidateSanitized ==
    /\ nl.pc = "revalidate"
    /\ nl' = AfterRevalidate(nl, validate_strategy(nl.strategy))
    /\ UNCHANGED <<auto_fix, callVars, threadVars>>

\* explanation = self._generate_explanation(strategy), and the return
Explain ==
    /\ nl.pc = "explain"
    /\ \E llm \in BOOLEAN :
          nl' = AfterExplain(nl, _generate_explanation(nl.strategy, llm))
    /\ UNCHANGED <<auto_fix, callVars, threadVars>>

NextNL ==
    \/ Generate
    \/ ExtractJson
    \/ ParseJson
    \/ ValidateParsed
    \/ SanitizeInvalid
    \/ RevalidateSanitized
    \/ Explain

SpecNL == InitNL /\ [][NextNL]_vars

----------------------------------------------------------------------------
(* Properties of a run of parse_strategy_from_nl                           *)

StepAt(i) == nl.trace[i].step

Sanitizations == {i \in 1..Len(nl.trace) : StepAt(i) = "sanitize_strategy"}

Validations == {i \in 1..Len(nl.trace) : StepAt(i) = "validate_strategy"}

PipelineHead == <<"generate", "_extract_json", "json.loads", "validate_strategy">>

\* the first four calls are generate, _extract_json, json.loads and
\* validate_strategy, in this order
StepsInOrder ==
    \A i \in 1..Len(nl.trace) : i <= Len(PipelineHead) => StepAt(i) = PipelineHead[i]

\* the sanitizer runs only after a validation that returned invalid, and
\* only when auto_fix is set
SanitizedOnlyToFix ==
    \A i \in Sanitizations :
        /\ auto_fix
        /\ i - 1 \in Validations
        /\ nl.trace[i - 1].exc = "" /\ nl.trace[i - 1].errors # <<>>

\* at the end of the run, each run of the sanitizer was followed by a
\* validation
SanitizedThenRevalidated ==
    nl.pc = "done" => \A i \in Sanitizations : i + 1 \in Validations

\* success = True is returned only with the strategy whose latest
\* validation had no errors
SuccessOnlyIfValid ==
    (nl.pc = "done" /\ ~IsRaise(nl.returned) /\ nl.returned.success)
    => \E last \in Validations :
          /\ \A i \in Validations : i <= last
          /\ nl.trace[last].exc = "" /\ nl.trace[last].errors = <<>>
          /\ validate_strategy(nl.returned.strategy).errors = <<>>

\* a strategy that validates at the first attempt is returned as parsed
ValidReturnedUnsanitized ==
    (nl.pc = "done" /\ Len(nl.trace) >= 4 /\ nl.trace[4].ok)
    => /\ Sanitizations = {}
       /\ ~IsRaise(nl.returned) => nl.returned = Success(nl.parsed, nl.returned.explanation)

\* C8: in every run of parse_strategy_from_nl the steps are ordered
\* generate, extract JSON, parse, validate; the sanitizer runs only after a
\* validation that returned invalid and only when auto_fix is set; it is
\* always followed by a re-validation of the sanitized strategy; success =
\* True is returned only with a strategy whose latest validation had no
\* errors; a strategy that validates at the first attempt is returned
\* unsanitized.
C8_PipelineOrder ==
    /\ StepsInOrder
    /\ SanitizedOnlyToFix
    /\ SanitizedThenRevalidated
    /\ SuccessOnlyIfValid
    /\ ValidReturnedUnsanitized

\* C8, but for the re-validation: the other four parts hold in every run.
C8_AllButRevalidation ==
    /\ StepsInOrder
    /\ SanitizedOnlyToFix
    /\ SuccessOnlyIfValid
    /\ ValidReturnedUnsanitized

\* C8, the re-validation: it follows every sanitization that returns.
C8_RevalidatedWhenSanitizeReturns ==
    nl.pc = "done" =>
        \A i \in Sanitizations : nl.trace[i].exc = "" => i + 1 \in Validations

----------------------------------------------------------------------------
(* Two validate_strategy calls on one StrategyValidator, as the single     *)
(* self.validator of an OllamaClient used from two threads:                *)
(* src/strategy_validator.py lines 51-94, src/ollama_client.py line 32.    *)
(* A list is an object of the heap, known by its position there;           *)
(* self.errors and self.warnings hold such positions, and so does the      *)
(* tuple a call returns.  A thread moves by one statement at a time, a     *)
(* turn of the loop over the conditions counting as one.                   *)

Threads == {"a", "b"}

Other(t) == CHOOSE u \in Threads : u # t

ThreadInputs ==
    {JInt(5),
     Strategy(GoodName, JStr(<<"d">>), JList(<<GoodCond>>)),
     Strategy(JStr(<<>>), Absent, JList(<<WarnCond, ManyDefectsCond>>)),
     Strategy(GoodName, Absent, JList(<<>>)),
     Strategy(GoodName, JStr(<<"d">>),
              JList(<<WarnCond, Cond(JDict(With(BareRsi.f, "name", JInt(5))),
                                     OP_LT, Value30)>>))}

\* self.errors.clear() in place of self.errors = []
Reset_InPlace(h, ref) == [heap |-> [h EXCEPT ![ref] = <<>>], ref |-> ref]

\* self.errors = [] and self.warnings = []: a new, empty list object takes
\* the place of the one the field held
Reset(h, ref) == [heap |-> Append(h, <<>>), ref |-> Len(h) + 1]

\* self.errors.append(...), for each of msgs
Extend(h, ref, msgs) == [h EXCEPT ![ref] = @ \o msgs]

InProgress(call) == call.pc \notin {"idle", "done"}

\* the call of thread t moved to pc
Moved(t, pc) == [calls EXCEPT ![t].pc = pc]

\* return ..., self.errors, self.warnings
Returned(t, is_valid) ==
    [calls EXCEPT ![t].pc = "done",
                  ![t].returned = [t |-> "tuple", is_valid |-> is_valid,
                                   errors |-> self_errors,
                                   warnings |-> self_warnings]]

Raised(t, exc) ==
    [calls EXCEPT ![t].pc = "done", ![t].returned = Raise(exc)]

\* lines 81-86 of validate_strategy
ConditionsErrors(s) ==
    IF ~Has(s, "conditions")
    THEN <<(<<"Missing required field: 'conditions'">>)>>
    ELSE IF ~IsList(s.f.conditions)
    THEN <<(<<"'conditions' must be an array">>)>>
    ELSE IF Len(s.f.conditions.items) = 0
    THEN <<(<<"'conditions' array cannot be empty">>)>>
    ELSE <<>>

InitConc ==
    /\ heap = <<(<<>>), (<<>>)>>
    /\ self_errors = 1
    /\ self_warnings = 2
    /\ calls = [t \in Threads |->
                  [pc |-> "idle", strategy |-> Unset, i |-> 0,
                   is_valid |-> FALSE, returned |-> Unset]]
    /\ overlapped = FALSE
    /\ NoCalls
    /\ NoRun

\* thread t calls self.validator.validate_strategy(x)
Call(t) ==
    /\ calls[t].pc = "idle"
    /\ \E x \in ThreadInputs :
          calls' = [calls EXCEPT ![t].pc = "reset_errors", ![t].strategy = x]
    /\ overlapped' = (overlapped \/ InProgress(calls[Other(t)]))
    /\ UNCHANGED <<heap, self_errors, self_warnings, callVars, nlVars>>

\* line 62: self.errors = []
ResetErrors(t) ==
    /\ calls[t].pc = "reset_errors"
    /\ heap' = Reset(heap, self_errors).heap
    /\ self_errors' = Reset(heap, self_errors).ref
    /\ calls' = Moved(t, "reset_warnings")
    /\ UNCHANGED <<self_warnings, overlapped, callVars, nlVars>>

\* line 63: self.warnings = []
ResetWarnings(t) ==
    /\ calls[t].pc = "reset_warnings"
    /\ heap' = Reset(heap, self_warnings).heap
    /\ self_warnings' = Reset(heap, self_warnings).ref
    /\ calls' = Moved(t, "object")
    /\ UNCHANGED <<self_errors, overlapped, callVars, nlVars>>

\* lines 66-67: if not isinstance(strategy, dict): self.errors.append(...)
CheckObject(t) ==
    /\ calls[t].pc = "object"
    /\ IF IsDict(calls[t].strategy)
       THEN heap' = heap /\ calls' = Moved(t, "name")
       ELSE /\ heap' = Extend(heap, self_errors,
                              <<(<<"Strategy must be a JSON object">>)>>)
            /\ calls' = Moved(t, "return_early")
    /\ UNCHANGED <<self_errors, self_warnings, overlapped, callVars, nlVars>>

\* line 68: return False, self.errors, self.warnings
ReturnEarly(t) ==
    /\ calls[t].pc = "return_early"
    /\ calls' = Returned(t, FALSE)
    /\ UNCHANGED <<heap, self_errors, self_warnings, overlapped, callVars, nlVars>>

\* lines 70-74: the name
CheckName(t) ==
    /\ calls[t].pc = "name"
    /\ heap' = Extend(heap, self_errors, NameErrors(calls[t].strategy))
    /\ calls' = Moved(t, "description")
    /\ UNCHANGED <<self_errors, self_warnings, overlapped, callVars, nlVars>>

\* lines 76-78: the description
CheckDescription(t) ==
    /\ calls[t].pc = "description"
    /\ heap' = Extend(heap, self_warnings, DescriptionWarnings(calls[t].strategy))
    /\ calls' = Moved(t, "conditions")
    /\ UNCHANGED <<self_errors, self_warnings, overlapped, callVars, nlVars>>

\* lines 80-88: the conditions field, up to the start of the loop
CheckConditions(t) ==
    /\ calls[t].pc = "conditions"
    /\ heap' = Extend(heap, self_errors, ConditionsErrors(calls[t].strategy))
    /\ calls' = IF ConditionsErrors(calls[t].strategy) = <<>>
                THEN [calls EXCEPT ![t].pc = "loop", ![t].i = 0]
                ELSE Moved(t, "is_valid")
    /\ UNCHANGED <<self_errors, self_warnings, overlapped, callVars, nlVars>>

\* the errors a turn of the loop appends, r being what validate_condition
\* returned
TurnErrors(i, r) ==
    IF r.exc = "" /\ ~r.ok
    THEN <<(<<"Condition ">> \o IntStr(i + 1) \o <<": ">> \o r.err)>>
    ELSE <<>>

\* the call after a turn of the loop
TurnDone(t, conditions, i, r) ==
    IF r.exc # "" THEN Raised(t, r.exc)
    ELSE IF i + 1 >= Len(conditions) THEN Moved(t, "is_valid")
    ELSE [calls EXCEPT ![t].i = i + 1]

\* lines 88-91, one turn: validate_condition appends its warnings to
\* self.warnings, then the error, if any, is appended to self.errors
Turn(t, conditions, i, r) ==
    /\ heap' = Extend(Extend(heap, self_warnings, r.warns),
                      self_errors, TurnErrors(i, r))
    /\ calls' = TurnDone(t, conditions, i, r)

LoopTurn(t) ==
    /\ calls[t].pc = "loop"
    /\ Turn(t, calls[t].strategy.f.conditions.items, calls[t].i,
            validate_condition(
                calls[t].strategy.f.conditions.items[calls[t].i + 1],
                calls[t].i))
    /\ UNCHANGED <<self_errors, self_warnings, overlapped, callVars, nlVars>>

\* line 93: is_valid = len(self.errors) == 0
ComputeValid(t) ==
    /\ calls[t].pc = "is_valid"
    /\ calls' = [calls EXCEPT ![t].pc = "return",
                              ![t].is_valid = (Len(heap[self_errors]) = 0)]
    /\ UNCHANGED <<heap, self_errors, self_warnings, overlapped, callVars, nlVars>>

\* line 94: return is_valid, self.errors, self.warnings
Return(t) ==
    /\ calls[t].pc = "return"
    /\ calls' = Returned(t, calls[t].is_valid)
    /\ UNCHANGED <<heap, self_errors, self_warnings, overlapped, callVars, nlVars>>

NextConc ==
    \E t \in Threads :
        \/ Call(t)
        \/ ResetErrors(t)
        \/ ResetWarnings(t)
        \/ CheckObject(t)
        \/ ReturnEarly(t)
        \/ CheckName(t)
        \/ CheckDescription(t)
        \/ CheckConditions(t)
        \/ LoopTurn(t)
        \/ ComputeValid(t)
        \/ Return(t)

SpecConc == InitConc /\ [][NextConc]_vars

----------------------------------------------------------------------------
(* Properties of the two calls                                             *)

\* what validate_strategy gives for x when nothing else runs
Alone(v) ==
    IF v.exc # "" THEN Raise(v.exc)
    ELSE [t |-> "tuple", is_valid |-> v.is_valid, errors |-> v.errors,
          warnings |-> v.warnings]

Expected(t) == Alone(validate_strategy(calls[t].strategy))

\* what the caller of thread t holds: the flag, and the two lists as they
\* are now
Observed(t) ==
    IF IsRaise(calls[t].returned) THEN calls[t].returned
    ELSE [t |-> "tuple", is_valid |-> calls[t].returned.is_valid,
          errors |-> heap[calls[t].returned.errors],
          warnings |-> heap[calls[t].returned.warnings]]

Entries(result) ==
    IF IsRaise(result) THEN {}
    ELSE {result.errors[k] : k \in 1..Len(result.errors)}
         \cup {result.warnings[k] : k \in 1..Len(result.warnings)}

\* the call of t holds an error or warning produced for the other input
Foreign(t) ==
    /\ calls[t].pc = "done" /\ calls[Other(t)].pc # "idle"
    /\ \E m \in Entries(Observed(t)) :
          m \notin Entries(Expected(t)) /\ m \in Entries(Expected(Other(t)))

\* the call of t returned without an error or warning produced for its input
Lost(t) ==
    /\ calls[t].pc = "done" /\ ~IsRaise(calls[t].returned)
    /\ \E m \in Entries(Expected(t)) : m \notin Entries(Observed(t))

\* C9: validate_strategy resets the instance fields self.errors and
\* self.warnings and then appends to them, so two calls interleaved on the
\* same instance can corrupt each other's results: a call that returned
\* holds a result other than the one its input gives alone only if the two
\* calls were in progress together (and C9_Witness is such a run: a call
\* holding an entry produced for the other input, and missing one of its
\* own).
C9_CorruptOnlyIfInterleaved ==
    \A t \in Threads :
        (calls[t].pc = "done" /\ Observed(t) # Expected(t)) => overlapped

\* a call that returned with an entry of the other call and without one of
\* its own
C9_Witness ==
    \E t \in Threads : Foreign(t) /\ Lost(t)

----------------------------------------------------------------------------
(* Properties of what sanitize_strategy returns, condition by condition    *)

\* the conditions given: those of the strategy when it is an object with a
\* list of them
InputConditions ==
    IF IsDict(strategy) /\ Has(strategy, "conditions")
       /\ IsList(strategy.f.conditions)
    THEN strategy.f.conditions.items
    ELSE <<>>

\* sanitize_strategy has returned
SanitizeReturned == sanitized # Unset /\ ~IsRaise(sanitized)

OutputConditions == sanitized.f.conditions.items

\* an operand _sanitize_operand gives None for: not an object, or of a type
\* that is neither 'value' nor 'indicator'
NotSanitizable(operand) ==
    \/ ~IsDict(operand)
    \/ Has(operand, "type") /\ operand.f.type \notin {TYPE_VALUE, TYPE_INDICATOR}

DroppedCondition(c) ==
    \/ ~IsDict(c)
    \/ ~Has(c, "lhs")
    \/ ~Has(c, "rhs")
    \/ NotSanitizable(c.f.lhs)
    \/ NotSanitizable(c.f.rhs)

\* the positions, from the i-th on, of the conditions that are not dropped
RECURSIVE KeptFrom(_, _)
KeptFrom(conds, i) ==
    IF i > Len(conds) THEN <<>>
    ELSE (IF DroppedCondition(conds[i]) THEN <<>> ELSE <<i>>)
         \o KeptFrom(conds, i + 1)

KeptPositions == KeptFrom(InputConditions, 1)

\* the j-th condition returned is made from the condition given at
\* KeptPositions[j]
OutputsMatchKept ==
    SanitizeReturned => Len(OutputConditions) = Len(KeptPositions)

Sides == {"lhs", "rhs"}

GivenOperand(j, side) == InputConditions[KeptPositions[j]].f[side]

OutputOperand(j, side) == OutputConditions[j].f[side]

IsIndicatorOperand(operand) == operand.f.type = TYPE_INDICATOR

\* a JSON integer, which true and false are not
JsonInteger(v) == v.t = "int"

\* the name: the registry key a letter-case variant of it stands for,
\* 'close' for any other name or none
NameAsClaimed(given) ==
    IF Has(given, "name") /\ IsStr(given.f.name)
       /\ InRegistry(StrLower(given.f.name.s))
    THEN JStr(StrLower(given.f.name.s))
    ELSE JStr(Chars_close)

\* the timeframe: the one given when it is valid, 'daily' otherwise
TimeframeAsClaimed(given) ==
    IF Has(given, "timeframe") /\ InList(given.f.timeframe, VALID_TIMEFRAMES)
    THEN given.f.timeframe
    ELSE TF_DAILY

\* the offset: an integer >= 0, a negative integer given being clamped to 0
OffsetAsClaimed(given, offset) ==
    /\ JsonInteger(offset) /\ offset.n >= 0
    /\ (Has(given, "offset") /\ JsonInteger(given.f.offset))
       => offset.n = Max(0, given.f.offset.n)

PeriodGiven(given) ==
    Has(given, "params") /\ IsDict(given.f.params) /\ Has(given.f.params, "period")

\* the params: {period: p} with p the period given when it is a positive
\* integer and the registry default otherwise, or {} when the indicator
\* requires no period
ParamsAsClaimed(given, ind_config) ==
    IF ~ind_config.requires_period THEN EmptyDict
    ELSE IF PeriodGiven(given) /\ JsonInteger(given.f.params.f.period)
            /\ given.f.params.f.period.n >= 1
    THEN JDict([period |-> given.f.params.f.period])
    ELSE JDict([period |-> JInt(ind_config.default_period)])

IndicatorAsClaimed(given, out) ==
    /\ out.f.name = NameAsClaimed(given)
    /\ out.f.timeframe = TimeframeAsClaimed(given)
    /\ OffsetAsClaimed(given, out.f.offset)
    /\ out.f.params = ParamsAsClaimed(given, Config(out.f.name.s))

\* C11: every indicator operand in the output of sanitize_strategy has a
\* name that is a lowercase registry key (that of the letter-case variant
\* given, 'close' for any other or missing name), a timeframe among daily,
\* weekly and monthly ('daily' when absent or invalid), an offset that is
\* an integer >= 0 (negative values clamped to 0), and params equal to
\* {period: p}, p being the period given when it is a positive integer and
\* the registry default otherwise, if the indicator requires a period, or to
\* the empty object if it does not.
C11_IndicatorOperandsNormalised ==
    SanitizeReturned =>
        /\ Len(OutputConditions) = Len(KeptPositions)
        /\ \A j \in 1..Len(OutputConditions) : \A side \in Sides :
              IsIndicatorOperand(OutputOperand(j, side))
              => IndicatorAsClaimed(GivenOperand(j, side), OutputOperand(j, side))

\* some operand given has a boolean for its period
BooleanPeriodGiven ==
    \E i \in 1..Len(InputConditions) : \E side \in Sides :
        /\ IsDict(InputConditions[i]) /\ Has(InputConditions[i], side)
        /\ IsDict(InputConditions[i].f[side])
        /\ PeriodGiven(InputConditions[i].f[side])
        /\ InputConditions[i].f[side].f.params.f.period.t = "bool"

\* C11, when no period given is a boolean: every indicator operand returned
\* is as claimed.
C11_UnlessBooleanPeriod ==
    (SanitizeReturned /\ ~BooleanPeriodGiven) =>
        /\ Len(OutputConditions) = Len(KeptPositions)
        /\ \A j \in 1..Len(OutputConditions) : \A side \in Sides :
              IsIndicatorOperand(OutputOperand(j, side))
              => IndicatorAsClaimed(GivenOperand(j, side), OutputOperand(j, side))

MissingType(operand) == IsDict(operand) /\ ~Has(operand, "type")

InvalidType(operand) ==
    /\ IsDict(operand) /\ Has(operand, "type")
    /\ operand.f.type \notin {TYPE_VALUE, TYPE_INDICATOR}

\* the positions, from the i-th on, of the conditions that are objects with
\* an object for lhs and an object for rhs
RECURSIVE ObjectPairsFrom(_, _)
ObjectPairsFrom(conds, i) ==
    IF i > Len(conds) THEN <<>>
    ELSE (IF /\ IsDict(conds[i]) /\ Has(conds[i], "lhs") /\ Has(conds[i], "rhs")
             /\ IsDict(conds[i].f.lhs) /\ IsDict(conds[i].f.rhs)
          THEN <<i>> ELSE <<>>)
         \o ObjectPairsFrom(conds, i + 1)

ObjectPairPositions == ObjectPairsFrom(InputConditions, 1)

\* C12, as claimed: when sanitizing an operand object, a missing type and
\* an invalid type (any value other than 'value' or 'indicator') are both
\* treated as 'indicator': the operand is sanitized as an indicator operand
\* and its condition is kept.
C12_MissingOrInvalidTypeIsIndicator ==
    SanitizeReturned =>
        /\ Len(OutputConditions) = Len(ObjectPairPositions)
        /\ \A j \in 1..Len(OutputConditions) : \A side \in Sides :
              (\/ MissingType(InputConditions[ObjectPairPositions[j]].f[side])
               \/ InvalidType(InputConditions[ObjectPairPositions[j]].f[side]))
              => IsIndicatorOperand(OutputOperand(j, side))

\* C12, amended: an operand object with no type is sanitized as an
\* indicator operand, under the name given or 'close', and does not make
\* its condition dropped; an operand object with a type other than 'value'
\* and 'indicator' is not sanitized, and its condition is dropped: the
\* conditions returned are those given whose operands are both objects of
\* type 'value', 'indicator' or no type, each with the types of its operands.
C12_MissingTypeIsIndicator ==
    SanitizeReturned =>
        /\ Len(OutputConditions) = Len(KeptPositions)
        /\ \A j \in 1..Len(OutputConditions) : \A side \in Sides :
              /\ MissingType(GivenOperand(j, side))
                 => /\ IsIndicatorOperand(OutputOperand(j, side))
                    /\ OutputOperand(j, side).f.name
                         = NameAsClaimed(GivenOperand(j, side))
              /\ ~MissingType(GivenOperand(j, side))
                 => OutputOperand(j, side).f.type = GivenOperand(j, side).f.type

\* sanitize_strategy returned for conditions of which one has an operand
\* with no type, and is kept, and another an operand of an invalid type
C12_Witness ==
    /\ SanitizeReturned
    /\ \E j \in 1..Len(KeptPositions) : \E side \in Sides :
          MissingType(GivenOperand(j, side))
    /\ \E i \in 1..Len(InputConditions) : \E side \in Sides :
          /\ IsDict(InputConditions[i]) /\ Has(InputConditions[i], side)
          /\ InvalidType(InputConditions[i].f[side])
    /\ Len(OutputConditions) >= 1

GivenCondition(j) == InputConditions[KeptPositions[j]]

\* the operator given when it is valid, '>' when it is not or there is none
OperatorAsClaimed(given) ==
    IF Has(given, "operator") /\ InList(given.f.operator, VALID_OPERATORS)
    THEN given.f.operator
    ELSE OP_GT

\* the tolerance given, 1.0 when there is none
ToleranceAsClaimed(given, out) ==
    /\ Has(out, "tolerance")
    /\ out.f.tolerance = Get(given, "tolerance", JFloat(10))

HasOperator(given, operator) ==
    Has(given, "operator") /\ given.f.operator = operator

FallbackNamed(name) ==
    JDict([name |-> JStr(name), description |-> JStr(<<>>),
           conditions |-> JList(<<>>)])

\* C14, as claimed: for every non-object input, sanitize_strategy returns a
\* fallback strategy with an empty name, an empty description and an empty
\* condition list.
C14_FallbackHasEmptyName ==
    (sanitized # Unset /\ ~IsDict(strategy)) => sanitized = FallbackNamed(<<>>)

\* C14, amended: for every non-object input, sanitize_strategy returns a
\* fallback strategy with the name "Invalid Strategy", an empty description
\* and an empty condition list.
C14_FallbackIsInvalidStrategy ==
    (sanitized # Unset /\ ~IsDict(strategy))
        => sanitized = FallbackNamed(Chars_Invalid)

\* sanitize_strategy has returned for an input that is no object
C14_Witness ==
    /\ sanitized # Unset
    /\ ~IsDict(strategy)
    /\ ~IsRaise(sanitized)
    /\ sanitized.f.conditions = JList(<<>>)

\* the conditions returned are the sanitized conditions given at
\* KeptPositions, in that order; none when conditions is not a list
ImageOfKept ==
    /\ Len(OutputConditions) = Len(KeptPositions)
    /\ \A j \in 1..Len(OutputConditions) :
          OutputConditions[j] = _sanitize_condition(GivenCondition(j))
    /\ \A j \in 1..(Len(KeptPositions) - 1) :
          KeptPositions[j] < KeptPositions[j + 1]
    /\ (IsDict(strategy) /\ ~IsList(Get(strategy, "conditions", JList(<<>>))))
          => OutputConditions = <<>>

\* the positions of the condition objects given that have no lhs
WithoutLhs ==
    {i \in 1..Len(InputConditions) :
        IsDict(InputConditions[i]) /\ ~Has(InputConditions[i], "lhs")}

IsPrefix(p, message) ==
    Len(p) <= Len(message) /\ SubSeq(message, 1, Len(p)) = p

InKept(i) == \E j \in 1..Len(KeptPositions) : KeptPositions[j] = i

\* an error of the list returned names 'Condition i'
NamesCondition(i) ==
    \E k \in 1..Len(validated.errors) :
        IsPrefix(ConditionLabel(i), validated.errors[k])

\* C15: the condition list returned by sanitize_strategy is the
\* order-preserving image of a subsequence of the input conditions: a
\* condition is dropped exactly when it is not an object, lacks lhs or rhs,
\* or has an operand that cannot be sanitized, and the others appear once
\* each, sanitized, in input order; a non-list conditions value gives an
\* empty list.  A condition with no lhs at position i is therefore dropped
\* by the sanitizer and reported by validate_strategy as an error naming
\* 'Condition i'.
C15_SubsequenceAndReported ==
    /\ SanitizeReturned => ImageOfKept
    /\ \A i \in WithoutLhs :
          /\ sanitized # Unset => (SanitizeReturned /\ ~InKept(i))
          /\ validated # Unset => (validated.exc = "" /\ NamesCondition(i))

\* the same, for the calls that return: what is left of C15 when
\* sanitize_strategy and validate_strategy do not raise
C15_WhereTheCallsReturn ==
    /\ SanitizeReturned => ImageOfKept
    /\ \A i \in WithoutLhs :
          /\ SanitizeReturned => ~InKept(i)
          /\ (validated # Unset /\ validated.exc = "") => NamesCondition(i)

----------------------------------------------------------------------------
(* Calls one after the other on one StrategyValidator:                     *)
(* src/strategy_validator.py lines 51-94 and 202-228.  calls is the        *)
(* sequence of the calls made so far, each with its argument and what it   *)
(* returned; a validate_strategy call returns the positions in the heap of *)
(* the two lists, as the caller holds the list objects themselves.         *)

MaxCalls == 3

\* lines 62-94 of validate_strategy with self.errors.clear() and
\* self.warnings.clear() in place of the two assignments
ValidateHeap_ClearInPlace(h, errors_ref, warnings_ref, v) ==
    LET first == Reset_InPlace(h, errors_ref)
        second == Reset_InPlace(first.heap, warnings_ref)
    IN  [heap |-> Extend(Extend(second.heap, first.ref, v.errors),
                         second.ref, v.warnings),
         errors |-> first.ref,
         warnings |-> second.ref]

\* lines 62-94 of validate_strategy, v being what its checks give: the two
\* fields take new lists, and the errors and warnings are appended to them
ValidateHeap(h, errors_ref, warnings_ref, v) ==
    LET first == Reset(h, errors_ref)
        second == Reset(first.heap, warnings_ref)
    IN  [heap |-> Extend(Extend(second.heap, first.ref, v.errors),
                         second.ref, v.warnings),
         errors |-> first.ref,
         warnings |-> second.ref]

\* what the call gives its caller: the exception, or the tuple of line 94
\* (line 68) with the two lists of the fields
ValidateResult(v, after) ==
    IF v.exc # "" THEN Raise(v.exc)
    ELSE [t |-> "tuple", is_valid |-> v.is_valid,
          errors |-> after.errors, warnings |-> after.warnings]

InitSeq ==
    /\ heap = <<(<<>>), (<<>>)>>
    /\ self_errors = 1
    /\ self_warnings = 2
    /\ calls = <<>>
    /\ overlapped = FALSE
    /\ NoCalls
    /\ NoRun

ValidateCallWith(x, v, after) ==
    /\ heap' = after.heap
    /\ self_errors' = after.errors
    /\ self_warnings' = after.warnings
    /\ calls' = Append(calls, [op |-> "validate", arg |-> x,
                               returned |-> ValidateResult(v, after)])

\* validator.validate_strategy(x), from call to return
ValidateCall ==
    /\ Len(calls) < MaxCalls
    /\ \E x \in ThreadInputs :
          ValidateCallWith(x, validate_strategy(x),
                           ValidateHeap(heap, self_errors, self_warnings,
                                        validate_strategy(x)))
    /\ UNCHANGED <<overlapped, callVars, nlVars>>

\* validator.sanitize_strategy(x), from call to return: lines 202-306 read
\* and write neither self.errors nor self.warnings
SanitizeCall ==
    /\ Len(calls) < MaxCalls
    /\ \E x \in ThreadInputs :
          calls' = Append(calls, [op |-> "sanitize", arg |-> x,
                                  returned |-> sanitize_strategy(x)])
    /\ UNCHANGED <<heap, self_errors, self_warnings, overlapped, callVars, nlVars>>

NextSeq == ValidateCall \/ SanitizeCall

SpecSeq == InitSeq /\ [][NextSeq]_vars

----------------------------------------------------------------------------
(* Properties of the calls made one after the other                        *)

\* the validate_strategy calls made so far that returned
ReturnedValidations ==
    {k \in 1..Len(calls) :
        calls[k].op = "validate" /\ ~IsRaise(calls[k].returned)}

\* what the caller of the k-th call holds: the flag, and the two lists as
\* they are now
Held(k) ==
    [t |-> "tuple", is_valid |-> calls[k].returned.is_valid,
     errors |-> heap[calls[k].returned.errors],
     warnings |-> heap[calls[k].returned.warnings]]

\* C16: for any sequence of non-overlapping validate_strategy and
\* sanitize_strategy calls on one instance, the errors and warnings
\* returned by each validate call depend only on that call's argument, and
\* a list returned by an earlier validate call is not changed by any later
\* call: at every moment, each validate call that returned holds what
\* validate_strategy gives for its argument alone.
C16_ResultsOfTheArgumentOnly ==
    \A k \in ReturnedValidations :
        Held(k) = Alone(validate_strategy(calls[k].arg))

\* a validate call returned errors, and a sanitize call and a validate call
\* of another argument, with other errors, came after it
C16_Witness ==
    \E k \in ReturnedValidations :
        /\ Held(k).errors # <<>>
        /\ \E m \in ReturnedValidations :
              /\ m > k + 1
              /\ calls[k + 1].op = "sanitize"
              /\ calls[m].arg # calls[k].arg
              /\ Held(m).errors # Held(k).errors

----------------------------------------------------------------------------
(* Properties of sanitizing a strategy that validates                      *)

\* validate_strategy has returned valid for the strategy
ValidatesAlready ==
    validated # Unset /\ validated.exc = "" /\ validated.is_valid

\* out has every field of the keys that given has, with the same value
KeepsSupplied(given, out, keys) ==
    \A key \in keys :
        Has(given, key) => (Has(out, key) /\ out.f[key] = given.f[key])

\* the period given, when params is an object that has one, is the period
\* returned
KeepsPeriod(given, out) ==
    PeriodGiven(given) =>
        /\ Has(out.f.params, "period")
        /\ out.f.params.f.period = given.f.params.f.period

\* the operand returned keeps the type of the one given and, for an
\* indicator, its name in lowercase and the timeframe, offset and period
\* supplied; for a value, the value
KeepsOperand(given, out) ==
    /\ Has(given, "type") => out.f.type = given.f.type
    /\ IF out.f.type = TYPE_INDICATOR
       THEN /\ Has(given, "name") =>
                  out.f.name = JStr(StrLower(given.f.name.s))
            /\ KeepsSupplied(given, out, {"timeframe", "offset"})
            /\ KeepsPeriod(given, out)
       ELSE KeepsSupplied(given, out, {"value"})

\* C17: sanitizing a strategy that already validates drops and reorders
\* nothing: the output has the same number of conditions in the same order,
\* and each keeps its operator, its operand types, its indicator names
\* (lowercased) and every supplied timeframe, offset, period and value;
\* only missing defaults are added.  Hence validate_json_string on success
\* returns as many conditions as the parsed input.
C17_ValidStrategyKept ==
    /\ (ValidatesAlready /\ sanitized # Unset) =>
          /\ SanitizeReturned
          /\ Len(OutputConditions) = Len(InputConditions)
          /\ \A j \in 1..Len(OutputConditions) :
                /\ OutputConditions[j].f.operator = InputConditions[j].f.operator
                /\ \A side \in Sides :
                      KeepsOperand(InputConditions[j].f[side],
                                   OutputConditions[j].f[side])
    /\ (entry # Unset /\ entry.result.is_valid) =>
          Len(entry.result.strategy.f.conditions.items) = Len(InputConditions)

\* KeepsOperand, but for the offset and the period
KeepsTypeNameTimeframeValue(given, out) ==
    /\ Has(given, "type") => out.f.type = given.f.type
    /\ IF out.f.type = TYPE_INDICATOR
       THEN /\ Has(given, "name") =>
                  out.f.name = JStr(StrLower(given.f.name.s))
            /\ KeepsSupplied(given, out, {"timeframe"})
       ELSE KeepsSupplied(given, out, {"value"})

\* what holds of C17 for the strategies on which sanitize_strategy
\* returns: the conditions are kept one for one and in order, each with its
\* operator, operand types, indicator names, timeframes and values
C17_KeptWhereSanitizeReturns ==
    /\ (ValidatesAlready /\ SanitizeReturned) =>
          /\ Len(OutputConditions) = Len(InputConditions)
          /\ \A j \in 1..Len(OutputConditions) :
                /\ OutputConditions[j].f.operator = InputConditions[j].f.operator
                /\ \A side \in Sides :
                      KeepsTypeNameTimeframeValue(InputConditions[j].f[side],
                                                  OutputConditions[j].f[side])
    /\ (entry # Unset /\ entry.result.is_valid) =>
          Len(entry.result.strategy.f.conditions.items) = Len(InputConditions)

====
